---- MODULE Spec2Model ----
(***************************************************************************)
(* Markdown image localiser (OneClickMDImgLocal).  Two scripts of the     *)
(* repository are modelled: src/index.js and src/unnamed/part_000.  They  *)
(* share extraction, substitution and the driver loop and differ only in  *)
(* where they save images, what base the relative path is computed from   *)
(* and where the rewritten document is written.                           *)
(*                                                                         *)
(* Text (documents, URLs, paths) is a sequence of one-character strings,  *)
(* so the regular expressions, String.prototype.replace and the posix     *)
(* path functions are computed character by character.                    *)
(***************************************************************************)
EXTENDS Integers, Sequences, FiniteSets, TLC

(* ----------------------------- bounds -------------------------------- *)

\* A document is the concatenation of at most MaxFrags fragments.
MaxFrags == 2

\* Date.now() never exceeds MaxClock (milliseconds since the run began).
MaxClock == 1

(* ------------------------- character helpers ------------------------- *)

SetMin(S) == CHOOSE x \in S : \A y \in S : x <= y

SetMax(S) == CHOOSE x \in S : \A y \in S : x >= y

\* s.slice(a - 1, b) in 1-based inclusive positions; empty when a > b.
Slice(s, a, b) == IF a > b THEN <<>> ELSE SubSeq(s, a, b)

\* s.startsWith(t, p - 1)
StartsWithAt(s, p, t) ==
    /\ p >= 1
    /\ p + Len(t) - 1 <= Len(s)
    /\ \A k \in 1..Len(t) : s[p + k - 1] = t[k]

\* s.indexOf(t) as a 1-based position, 0 when t does not occur.
IndexOf(s, t) ==
    LET hits == {p \in 1..(Len(s) - Len(t) + 1) : StartsWithAt(s, p, t)}
    IN  IF hits = {} THEN 0 ELSE SetMin(hits)

Contains(s, t) == IndexOf(s, t) # 0

\* The line terminators the regular expression's "." does not match.
LineTerminators == {"\n", "\r"}

IsDot(c) == c \notin LineTerminators

Digits == {"0", "1", "2", "3", "4", "5", "6", "7", "8", "9"}

Letters ==
    {"a", "b", "c", "d", "e", "f", "g", "h", "i", "j", "k", "l", "m",
     "n", "o", "p", "q", "r", "s", "t", "u", "v", "w", "x", "y", "z",
     "A", "B", "C", "D", "E", "F", "G", "H", "I", "J", "K", "L", "M",
     "N", "O", "P", "Q", "R", "S", "T", "U", "V", "W", "X", "Y", "Z"}

\* The regular expression class \w.
IsWord(c) == c \in Letters \cup Digits \cup {"_"}

DigitChar(d) == <<"0", "1", "2", "3", "4", "5", "6", "7", "8", "9">>[d + 1]

\* String(n) for a natural number n, as a template literal formats it.
RECURSIVE NumberToString(_)
NumberToString(n) ==
    IF n < 10 THEN <<DigitChar(n)>>
    ELSE NumberToString(n \div 10) \o <<DigitChar(n % 10)>>

(* ------------------------- extractNetworkImages ---------------------- *)

HttpScheme == <<"h", "t", "t", "p", ":", "/", "/">>

HttpsScheme == <<"h", "t", "t", "p", "s", ":", "/", "/">>

\* Length of the text https?:\/\/ matches at position p, 0 when it does not.
SchemeLenAt(s, p) ==
    IF StartsWithAt(s, p, HttpsScheme) THEN Len(HttpsScheme)
    ELSE IF StartsWithAt(s, p, HttpScheme) THEN Len(HttpScheme)
    ELSE 0

\* Positions of a ")" that ends the lazy (https?:\/\/.*?) group begun at u.
UrlCloses(s, u) ==
    {e \in (u + SchemeLenAt(s, u))..Len(s) :
        /\ s[e] = ")"
        /\ \A j \in (u + SchemeLenAt(s, u))..(e - 1) : IsDot(s[j])}

\* Positions q of a "](" that can end the lazy alt group of a match begun
\* at p: the alt holds no line terminator, an http(s) scheme follows "](",
\* and the rest of the pattern matches from there.
AltCloses(s, p) ==
    {q \in (p + 2)..(Len(s) - 1) :
        /\ s[q] = "]"
        /\ s[q + 1] = "("
        /\ SchemeLenAt(s, q + 2) > 0
        /\ \A j \in (p + 2)..(q - 1) : IsDot(s[j])
        /\ UrlCloses(s, q + 2) # {}}

\* Whether /!\[(.*?)\]\((https?:\/\/.*?)\)/ matches starting at p.
MatchesAt(s, p) ==
    /\ StartsWithAt(s, p, <<"!", "[">>)
    /\ AltCloses(s, p) # {}

\* The match at p: backtracking takes the shortest alt, then the shortest url.
MatchAt(s, p) ==
    LET q == SetMin(AltCloses(s, p))
        e == SetMin(UrlCloses(s, q + 2))
    IN  [fullMatch |-> Slice(s, p, e),
         alt       |-> Slice(s, p + 2, q - 1),
         url       |-> Slice(s, q + 2, e - 1),
         last      |-> e]

\* The exec loop: the leftmost match at or after lastIndex, then on from
\* the end of that match.
RECURSIVE ExecFrom(_, _)
ExecFrom(s, from) ==
    LET starts == {p \in from..Len(s) : MatchesAt(s, p)}
    IN  IF starts = {} THEN <<>>
        ELSE LET m == MatchAt(s, SetMin(starts))
             IN  <<[fullMatch |-> m.fullMatch, alt |-> m.alt, url |-> m.url]>>
                 \o ExecFrom(s, m.last + 1)

extractNetworkImages(markdownContent) == ExecFrom(markdownContent, 1)

(* --------------------------- getImageExtension ----------------------- *)

\* End of the longest run of \w characters that starts at p (p - 1 if none).
RECURSIVE WordRunEnd(_, _)
WordRunEnd(s, p) ==
    IF p <= Len(s) /\ IsWord(s[p]) THEN WordRunEnd(s, p + 1) ELSE p - 1

\* Positions of a "." where /\.(\w+)(\?|$)/ matches: a greedy word run of at
\* least one character, followed by "?" or the end of the string.
ExtensionDots(url) ==
    {d \in 1..Len(url) :
        /\ url[d] = "."
        /\ WordRunEnd(url, d + 1) >= d + 1
        /\ \/ WordRunEnd(url, d + 1) = Len(url)
           \/ url[WordRunEnd(url, d + 1) + 1] = "?"}

DefaultExtension == <<"j", "p", "g">>

getImageExtension(url) ==
    IF ExtensionDots(url) = {} THEN DefaultExtension
    ELSE LET d == SetMin(ExtensionDots(url))
         IN  Slice(url, d + 1, WordRunEnd(url, d + 1))

(* ------------------------ String.prototype.replace ------------------- *)

\* The characters that form a substitution pattern after a "$".  The
\* fourth pattern, "$" followed by a backquote (the text before the match),
\* is left out: no modelled text holds a backquote.
SubstitutionChars == {"$", "&", "'"}

\* GetSubstitution for a string pattern (no capture groups): "$$" gives "$",
\* "$&" the matched text and "$'" the text after the match; every other "$"
\* stays as written.
RECURSIVE GetSubstitution(_, _, _, _)
GetSubstitution(replacement, k, matched, after) ==
    IF k > Len(replacement) THEN <<>>
    ELSE IF replacement[k] = "$" /\ k < Len(replacement)
              /\ replacement[k + 1] \in SubstitutionChars
         THEN (IF replacement[k + 1] = "$" THEN <<"$">>
               ELSE IF replacement[k + 1] = "&" THEN matched
               ELSE after)
              \o GetSubstitution(replacement, k + 2, matched, after)
         ELSE <<replacement[k]>>
              \o GetSubstitution(replacement, k + 1, matched, after)

\* str.replace(pattern, replacement) with a string pattern: only the first
\* occurrence is replaced, and the replacement is expanded.
StringReplace(str, pattern, replacement) ==
    LET p == IndexOf(str, pattern)
    IN  IF p = 0 THEN str
        ELSE LET before == Slice(str, 1, p - 1)
                 after  == Slice(str, p + Len(pattern), Len(str))
             IN  before
                 \o GetSubstitution(replacement, 1, pattern, after)
                 \o after

(* ------------------------ replaceImagesWithLocal --------------------- *)

\* The template literal ![${image.alt}](${target})
Markup(alt, target) == <<"!", "[">> \o alt \o <<"]", "(">> \o target \o <<")">>

\* The truthiness test localMap[image.url] on a plain object.
HasLocal(localMap, url) == url \in DOMAIN localMap /\ localMap[url] # <<>>

\* One step of images.forEach: the callback applied to image.
ReplaceOne(result, image, localMap) ==
    IF HasLocal(localMap, image.url)
    THEN StringReplace(result, image.fullMatch,
                       Markup(image.alt, localMap[image.url]))
    ELSE result

RECURSIVE ReplaceFrom(_, _, _, _)
ReplaceFrom(result, images, k, localMap) ==
    IF k > Len(images) THEN result
    ELSE ReplaceFrom(ReplaceOne(result, images[k], localMap),
                     images, k + 1, localMap)

replaceImagesWithLocal(markdownContent, images, localMap) ==
    ReplaceFrom(markdownContent, images, 1, localMap)

(* ------------------------------ path (posix) ------------------------- *)

Sep == <<"/">>

IsAbsolute(p) == Len(p) > 0 /\ p[1] = "/"

\* The non-empty components of p between slashes.
RECURSIVE SplitFrom(_, _)
SplitFrom(p, from) ==
    IF from > Len(p) THEN <<>>
    ELSE IF p[from] = "/" THEN SplitFrom(p, from + 1)
    ELSE LET slashes == {j \in from..Len(p) : p[j] = "/"}
             e == IF slashes = {} THEN Len(p) ELSE SetMin(slashes) - 1
         IN  <<Slice(p, from, e)>> \o SplitFrom(p, e + 1)

SplitPath(p) == SplitFrom(p, 1)

RECURSIVE JoinComps(_)
JoinComps(comps) ==
    IF comps = <<>> THEN <<>>
    ELSE IF Len(comps) = 1 THEN comps[1]
    ELSE comps[1] \o Sep \o JoinComps(Tail(comps))

\* normalizeString: resolves "." and ".." components.
RECURSIVE NormalizeComps(_, _, _)
NormalizeComps(comps, res, allowAboveRoot) ==
    IF comps = <<>> THEN res
    ELSE LET c == Head(comps)
             next ==
                 IF c = <<".">> THEN res
                 ELSE IF c = <<".", ".">>
                 THEN IF res # <<>> /\ res[Len(res)] # <<".", ".">>
                      THEN Slice(res, 1, Len(res) - 1)
                      ELSE IF allowAboveRoot THEN Append(res, c) ELSE res
                 ELSE Append(res, c)
         IN  NormalizeComps(Tail(comps), next, allowAboveRoot)

\* path.normalize
PathNormalize(p) ==
    IF Len(p) = 0 THEN <<".">>
    ELSE LET body == JoinComps(NormalizeComps(SplitPath(p), <<>>, ~IsAbsolute(p)))
             trailing == p[Len(p)] = "/"
         IN  IF body = <<>>
             THEN IF IsAbsolute(p) THEN Sep
                  ELSE IF trailing THEN <<".", "/">> ELSE <<".">>
             ELSE (IF IsAbsolute(p) THEN Sep ELSE <<>>)
                  \o body \o (IF trailing THEN Sep ELSE <<>>)

\* path.join(...parts): the non-empty parts joined by "/", then normalised.
RECURSIVE JoinRaw(_)
JoinRaw(parts) ==
    IF parts = <<>> THEN <<>>
    ELSE IF Head(parts) = <<>> THEN JoinRaw(Tail(parts))
    ELSE LET rest == JoinRaw(Tail(parts))
         IN  IF rest = <<>> THEN Head(parts) ELSE Head(parts) \o Sep \o rest

PathJoin(parts) ==
    IF JoinRaw(parts) = <<>> THEN <<".">> ELSE PathNormalize(JoinRaw(parts))

\* process.cwd(): the directory the program is started in.
Cwd == <<"/", "w">>

\* __dirname: the directory that holds the script.
ProgramDir == <<"/", "p">>

\* Components of path.resolve(p).
ResolveComps(p) ==
    NormalizeComps(SplitPath(IF IsAbsolute(p) THEN p ELSE Cwd \o Sep \o p),
                   <<>>, FALSE)

\* path.resolve(p)
PathResolve(p) == Sep \o JoinComps(ResolveComps(p))

RECURSIVE CommonPrefixLen(_, _)
CommonPrefixLen(a, b) ==
    IF a = <<>> \/ b = <<>> \/ Head(a) # Head(b) THEN 0
    ELSE 1 + CommonPrefixLen(Tail(a), Tail(b))

\* path.relative(from, to)
PathRelative(from, to) ==
    LET f == ResolveComps(from)
        t == ResolveComps(to)
        c == CommonPrefixLen(f, t)
        ups == [k \in 1..(Len(f) - c) |-> <<".", ".">>]
    IN  JoinComps(ups \o Slice(t, c + 1, Len(t)))

\* path.dirname(p)
PathDirname(p) ==
    IF Len(p) = 0 THEN <<".">>
    ELSE LET nonSlash == {t \in 2..Len(p) : p[t] # "/"}
             cands == IF nonSlash = {} THEN {}
                      ELSE {j \in 2..(SetMax(nonSlash) - 1) : p[j] = "/"}
         IN  IF cands = {}
             THEN IF IsAbsolute(p) THEN Sep ELSE <<".">>
             ELSE IF IsAbsolute(p) /\ SetMax(cands) = 2 THEN <<"/", "/">>
             ELSE Slice(p, 1, SetMax(cands) - 1)

EndsWith(s, t) == Len(t) <= Len(s) /\ StartsWithAt(s, Len(s) - Len(t) + 1, t)

\* path.basename(p, ext): the last component, without ext when it ends with
\* ext and is more than ext; the empty string when p is ext itself.
PathBasename(p, ext) ==
    LET comps == SplitPath(p)
        base == IF comps = <<>> THEN <<>> ELSE comps[Len(comps)]
    IN  IF ext # <<>> /\ p = ext THEN <<>>
        ELSE IF ext # <<>> /\ EndsWith(base, ext) /\ base # ext
        THEN Slice(base, 1, Len(base) - Len(ext))
        ELSE base

(* ------------------------------- inputs ------------------------------ *)

\* The two scripts of the repository.
Scripts == {"index.js", "part_000"}

ImgOpen == <<"!", "[">>

ImgMid == <<"]", "(">>

ImgClose == <<")">>

UrlU == HttpScheme \o <<"u", ".", "p", "n", "g">>

UrlV == HttpsScheme \o <<"v", "/", "$", "&">>

\* ![a](http://u.png)
FragA == ImgOpen \o <<"a">> \o ImgMid \o UrlU \o ImgClose

\* ![b](http://u.png): the URL of FragA under another alt text.
FragB == ImgOpen \o <<"b">> \o ImgMid \o UrlU \o ImgClose

\* ![a](https://v/$&): a URL that holds a substitution pattern.
FragV == ImgOpen \o <<"a">> \o ImgMid \o UrlV \o ImgClose

\* ![a](./l.png): an image that is already local.
FragLocal == ImgOpen \o <<"a">> \o ImgMid \o <<".", "/", "l", ".", "p", "n", "g">> \o ImgClose

\* An image reference that is never closed, up to a space.
FragUnclosed == ImgOpen \o <<"c">> \o ImgMid \o HttpScheme \o <<"w", " ">>

FragNewline == <<"\n">>

Fragments == {FragA, FragB, FragV, FragLocal, FragUnclosed, FragNewline}

\* The documents: every concatenation of at most MaxFrags fragments.
RECURSIVE DocsOf(_)
DocsOf(n) ==
    IF n = 0 THEN {<<>>}
    ELSE DocsOf(n - 1) \cup {d \o f : d \in DocsOf(n - 1), f \in Fragments}

Docs == DocsOf(MaxFrags)

MdExt == <<".", "m", "d">>

\* The paths given for the document: in a subdirectory of the working
\* directory, in the working directory, in the script's directory, and one
\* without the .md extension.
InputPaths ==
    {<<"d", "/", "a">> \o MdExt,
     <<"a">> \o MdExt,
     ProgramDir \o <<"/", "a">> \o MdExt,
     <<"d", "/", "n">>}

\* Math.floor(Math.random() * 1000) ranges over 0..RandRange - 1; the two
\* ends of the range stand for it.
RandRange == 1000

Rands == {0, RandRange - 1}

\* What a saved image file holds (the response body).
ImageBytes == <<"bytes">>

(* ------------------------------- state ------------------------------- *)

VARIABLES
    script,           \* which script is run
    argv,             \* process.argv.slice(2)
    stdin,            \* the line answered to the prompt
    files,            \* the file system: resolved path -> content
    dirs,             \* the directories that exist (resolved paths)
    now,              \* the clock Date.now() reads
    pc,               \* where the run is
    markdownFile,     \* main's parameter
    markdownContent,  \* the text read from markdownFile
    networkImages,    \* the extracted references
    localMap,         \* url -> replacement
    idx,              \* position of the for loop in networkImages
    savePath,         \* where the current image is to be saved
    requests,         \* the URLs axios.get was called with, in order
    inflight,         \* positions in requests not yet answered
    outputFile,       \* the path the rewritten document was written to
    log               \* the console lines, in order

vars == <<script, argv, stdin, files, dirs, now, pc, markdownFile,
          markdownContent, networkImages, localMap, idx, savePath, requests,
          inflight, outputFile, log>>

Line(name, arg) == [line |-> name, arg |-> arg]

\* A directory and every directory above it.
WithAncestors(dir) ==
    LET comps == ResolveComps(dir)
    IN  {Sep \o JoinComps(Slice(comps, 1, k)) : k \in 0..Len(comps)}

InitWith(docs, paths) ==
    /\ script \in Scripts
    /\ \E f \in paths :
        /\ \/ argv = <<f>> /\ stdin = <<>>
           \/ argv = <<>> /\ stdin = f
        /\ \/ files = <<>>
           \/ \E doc \in docs : files = (PathResolve(f) :> doc)
        /\ dirs = WithAncestors(Cwd) \cup WithAncestors(ProgramDir)
                  \cup WithAncestors(PathDirname(f))
    /\ now = 0
    /\ pc = "start"
    /\ markdownFile = <<>>
    /\ markdownContent = <<>>
    /\ networkImages = <<>>
    /\ localMap = <<>>
    /\ idx = 1
    /\ savePath = <<>>
    /\ requests = <<>>
    /\ inflight = {}
    /\ outputFile = <<>>
    /\ log = <<>>

Init == InitWith(Docs, InputPaths)

(* ----------------------- what the scripts differ in ------------------ *)

\* The directory of the input document (part_000: inputDir).
InputDir == PathDirname(markdownFile)

\* The directory the assets directory is made in.
SaveBase == IF script = "index.js" THEN ProgramDir ELSE InputDir

\* process.argv[2] || __dirname
ArgvOrDirname ==
    IF Len(argv) >= 1 /\ argv[1] # <<>> THEN argv[1] ELSE ProgramDir

\* The directory the returned path is relative to.
RelativeBase(path) ==
    IF script = "index.js" THEN PathDirname(ArgvOrDirname)
    ELSE PathDirname(PathDirname(path))

\* .replace(/\\/g, '/')
BackslashesToSlashes(s) == [k \in 1..Len(s) |-> IF s[k] = "\\" THEN "/" ELSE s[k]]

\* What downloadImage returns once the file is written.
ReturnedPath(path) ==
    LET relativePath == BackslashesToSlashes(PathRelative(RelativeBase(path), path))
    IN  IF StartsWithAt(relativePath, 1, <<".", "/">>) THEN relativePath
        ELSE <<".", "/">> \o relativePath

LocalSuffix == <<"_", "l", "o", "c", "a", "l">> \o MdExt

\* The path of the rewritten document.
OutputPath ==
    PathJoin(<<IF script = "index.js" THEN ProgramDir ELSE InputDir,
               PathBasename(markdownFile, MdExt) \o LocalSuffix>>)

AssetsName == <<"a", "s", "s", "e", "t", "s">>

\* `image_${Date.now()}_${Math.floor(Math.random() * 1000)}.${ext}`
FileName(ts, r, url) ==
    <<"i", "m", "a", "g", "e", "_">> \o NumberToString(ts) \o <<"_">>
    \o NumberToString(r) \o <<".">> \o getImageExtension(url)

(* ------------------------------ actions ------------------------------ *)

\* One argument on the command line: main(args[0]).
CommandLine ==
    /\ pc = "start"
    /\ Len(argv) = 1
    /\ markdownFile' = argv[1]
    /\ pc' = "read"
    /\ UNCHANGED <<script, argv, stdin, files, dirs, now, markdownContent,
                   networkImages, localMap, idx, savePath, requests, inflight,
                   outputFile, log>>

\* Otherwise the path is asked for: rl.question(..., main).
Prompt ==
    /\ pc = "start"
    /\ Len(argv) # 1
    /\ markdownFile' = stdin
    /\ log' = IF script = "part_000"
              THEN Append(log, Line("interactive", <<>>)) ELSE log
    /\ pc' = "read"
    /\ UNCHANGED <<script, argv, stdin, files, dirs, now, markdownContent,
                   networkImages, localMap, idx, savePath, requests, inflight,
                   outputFile>>

\* fs.readFileSync throws: the outer catch reports and the run ends.
ReadFails ==
    /\ pc = "read"
    /\ PathResolve(markdownFile) \notin DOMAIN files
    /\ log' = Append(log, Line("runFailed", <<>>))
    /\ pc' = "done"
    /\ UNCHANGED <<script, argv, stdin, files, dirs, now, markdownFile,
                   markdownContent, networkImages, localMap, idx, savePath,
                   requests, inflight, outputFile>>

\* The document is read and its network images are extracted.
ReadAndExtract ==
    /\ pc = "read"
    /\ PathResolve(markdownFile) \in DOMAIN files
    /\ LET content == files[PathResolve(markdownFile)]
           images == extractNetworkImages(content)
       IN  /\ markdownContent' = content
           /\ networkImages' = images
           /\ log' = log \o <<Line("readOk", markdownFile),
                              Line("found", Len(images))>>
    /\ pc' = "check"
    /\ UNCHANGED <<script, argv, stdin, files, dirs, now, markdownFile,
                   localMap, idx, savePath, requests, inflight, outputFile>>

\* Mutant of NoImages: the early return is never taken.
NoImages_Never(images) == FALSE

\* networkImages.length === 0
NoImages(images) == Len(images) = 0

\* Nothing to convert: main returns.
NothingToDo ==
    /\ pc = "check"
    /\ NoImages(networkImages)
    /\ log' = Append(log, Line("nothingToConvert", <<>>))
    /\ pc' = "done"
    /\ UNCHANGED <<script, argv, stdin, files, dirs, now, markdownFile,
                   markdownContent, networkImages, localMap, idx, savePath,
                   requests, inflight, outputFile>>

\* const localMap = {}; the for loop begins.
BeginLoop ==
    /\ pc = "check"
    /\ ~NoImages(networkImages)
    /\ localMap' = <<>>
    /\ idx' = 1
    /\ pc' = "loop"
    /\ UNCHANGED <<script, argv, stdin, files, dirs, now, markdownFile,
                   markdownContent, networkImages, savePath, requests,
                   inflight, outputFile, log>>

\* Mutant of StartDownload: downloadImage is called without await, so the
\* loop goes on to the next reference while the request is pending.
StartDownload_NoAwait ==
    /\ pc = "loop"
    /\ idx <= Len(networkImages)
    /\ \E ts \in now..(IF now < MaxClock THEN now + 1 ELSE now), r \in Rands :
        /\ now' = ts
        /\ savePath' = PathJoin(<<SaveBase, AssetsName,
                                  FileName(ts, r, networkImages[idx].url)>>)
    /\ requests' = Append(requests, networkImages[idx].url)
    /\ inflight' = inflight \cup {Len(requests) + 1}
    /\ log' = Append(log, Line("processing", networkImages[idx].url))
    /\ idx' = idx + 1
    /\ pc' = "loop"
    /\ UNCHANGED <<script, argv, stdin, files, dirs, markdownFile,
                   markdownContent, networkImages, localMap, outputFile>>

\* An iteration begins: the file name is made, downloadImage is called and
\* main waits for it (await).
StartDownload ==
    /\ pc = "loop"
    /\ idx <= Len(networkImages)
    /\ \E ts \in now..(IF now < MaxClock THEN now + 1 ELSE now), r \in Rands :
        /\ now' = ts
        /\ savePath' = PathJoin(<<SaveBase, AssetsName,
                                  FileName(ts, r, networkImages[idx].url)>>)
    /\ requests' = Append(requests, networkImages[idx].url)
    /\ inflight' = inflight \cup {Len(requests) + 1}
    /\ log' = Append(log, Line("processing", networkImages[idx].url))
    /\ pc' = "await"
    /\ UNCHANGED <<script, argv, stdin, files, dirs, markdownFile,
                   markdownContent, networkImages, localMap, idx, outputFile>>

\* Mutant of CatchBlock: the error is thrown on to main's outer catch, which
\* reports it and ends the run.
CatchBlock_Rethrow(logged) ==
    /\ log' = Append(logged, Line("runFailed", <<>>))
    /\ localMap' = localMap
    /\ idx' = idx
    /\ pc' = "done"

\* main's catch block, entered with the console as downloadImage left it:
\* the URL is mapped to itself and the loop goes on.
CatchBlock(logged) ==
    /\ log' = Append(logged, Line("convertFailed", networkImages[idx].url))
    /\ localMap' = (networkImages[idx].url :> networkImages[idx].url) @@ localMap
    /\ idx' = idx + 1
    /\ pc' = "loop"

\* axios.get rejects (network error or a status outside 2xx): downloadImage
\* reports and rethrows.
RequestFails ==
    /\ pc = "await"
    /\ inflight # {}
    /\ inflight' = {}
    /\ CatchBlock(Append(log, Line("downloadFailed", networkImages[idx].url)))
    /\ UNCHANGED <<script, argv, stdin, files, dirs, now, markdownFile,
                   markdownContent, networkImages, savePath, requests,
                   outputFile>>

\* The response arrives but fs.mkdirSync (called only when the directory is
\* missing) or fs.writeFileSync throws.
SaveFails ==
    /\ pc = "await"
    /\ inflight # {}
    /\ inflight' = {}
    /\ \/ /\ PathResolve(PathDirname(savePath)) \notin dirs
          /\ dirs' = dirs
       \/ dirs' = dirs \cup WithAncestors(PathDirname(savePath))
    /\ CatchBlock(Append(log, Line("downloadFailed", networkImages[idx].url)))
    /\ UNCHANGED <<script, argv, stdin, files, now, markdownFile,
                   markdownContent, networkImages, savePath, requests,
                   outputFile>>

\* The response arrives and the image is written: the returned path is
\* recorded for the URL.
ImageSaved ==
    /\ pc = "await"
    /\ inflight # {}
    /\ inflight' = {}
    /\ dirs' = dirs \cup WithAncestors(PathDirname(savePath))
    /\ files' = (PathResolve(savePath) :> ImageBytes) @@ files
    /\ localMap' = (networkImages[idx].url :> ReturnedPath(savePath)) @@ localMap
    /\ log' = log \o <<Line("downloadOk", savePath),
                       Line("convertOk", ReturnedPath(savePath))>>
    /\ idx' = idx + 1
    /\ pc' = "loop"
    /\ UNCHANGED <<script, argv, stdin, now, markdownFile, markdownContent,
                   networkImages, savePath, requests, outputFile>>

\* Object.keys(localMap).length
ConvertedCount == Cardinality(DOMAIN localMap)

\* After the loop: the text is rewritten and written to the output file.
WriteOutput ==
    /\ pc = "loop"
    /\ idx > Len(networkImages)
    /\ outputFile' = OutputPath
    /\ files' = (PathResolve(OutputPath)
                   :> replaceImagesWithLocal(markdownContent, networkImages, localMap))
                @@ files
    /\ log' = log \o <<Line("fileUpdated", OutputPath),
                       Line("converted", ConvertedCount)>>
    /\ pc' = "done"
    /\ UNCHANGED <<script, argv, stdin, dirs, now, markdownFile,
                   markdownContent, networkImages, localMap, idx, savePath,
                   requests, inflight>>

\* After the loop: writing the output file throws and the outer catch reports.
WriteOutputFails ==
    /\ pc = "loop"
    /\ idx > Len(networkImages)
    /\ log' = Append(log, Line("runFailed", <<>>))
    /\ pc' = "done"
    /\ UNCHANGED <<script, argv, stdin, files, dirs, now, markdownFile,
                   markdownContent, networkImages, localMap, idx, savePath,
                   requests, inflight, outputFile>>

Next ==
    \/ CommandLine
    \/ Prompt
    \/ ReadFails
    \/ ReadAndExtract
    \/ NothingToDo
    \/ BeginLoop
    \/ StartDownload
    \/ RequestFails
    \/ SaveFails
    \/ ImageSaved
    \/ WriteOutput
    \/ WriteOutputFails

Spec == Init /\ [][Next]_vars

(* --------------------- vocabulary of the properties ------------------ *)

NumImages == Len(networkImages)

\* The document was read and scanned.
Extracted == \E k \in 1..Len(log) : log[k].line = "found"

\* The rewritten document was written.
Written == outputFile # <<>>

\* The text of the rewritten document.
Output == files[PathResolve(outputFile)]

IsOutcome(e) == e.line \in {"convertOk", "convertFailed"}

\* The recorded outcomes, one per reference processed so far, in order.
Outcomes == SelectSeq(log, IsOutcome)

Succeeded(i) == i <= Len(Outcomes) /\ Outcomes[i].line = "convertOk"

Failed(i) == i <= Len(Outcomes) /\ Outcomes[i].line = "convertFailed"

\* The local paths downloadImage returned during the run.
ReturnedPaths == {log[k].arg : k \in {j \in 1..Len(log) : log[j].line = "convertOk"}}

\* Where each reference lies in the document: <<first, last>> per match.
RECURSIVE SpansFrom(_, _)
SpansFrom(s, from) ==
    LET starts == {p \in from..Len(s) : MatchesAt(s, p)}
    IN  IF starts = {} THEN <<>>
        ELSE LET p == SetMin(starts)
             IN  <<<<p, MatchAt(s, p).last>>>> \o SpansFrom(s, MatchAt(s, p).last + 1)

Spans == SpansFrom(markdownContent, 1)

\* The text of the document between reference i and reference i + 1
\* (before the first for i = 0, after the last for i = NumImages).
Between(i) ==
    Slice(markdownContent,
          IF i = 0 THEN 1 ELSE Spans[i][2] + 1,
          IF i = NumImages THEN Len(markdownContent) ELSE Spans[i + 1][1] - 1)

Fixed(text) == [fixed |-> TRUE, text |-> text]

AnyText == [fixed |-> FALSE, text |-> <<>>]

\* The document as a pattern: its text outside the references as it is, and
\* in the place of reference i the piece at[i].
DocumentWith(at) ==
    [k \in 1..(2 * NumImages + 1) |->
        IF k % 2 = 1 THEN Fixed(Between((k - 1) \div 2)) ELSE at[k \div 2]]

\* Whether text, from position pos on, is the pieces from k on in order,
\* each AnyText piece standing for any text.
RECURSIVE MatchesFrom(_, _, _, _)
MatchesFrom(text, pos, pieces, k) ==
    IF k > Len(pieces) THEN pos = Len(text) + 1
    ELSE IF pieces[k].fixed
    THEN /\ StartsWithAt(text, pos, pieces[k].text)
         /\ MatchesFrom(text, pos + Len(pieces[k].text), pieces, k + 1)
    ELSE \E q \in pos..(Len(text) + 1) : MatchesFrom(text, q, pieces, k + 1)

Matches(text, pieces) == MatchesFrom(text, 1, pieces, 1)

\* How many of the references in images have the URL url.
CountUrl(images, url) == Cardinality({i \in 1..Len(images) : images[i].url = url})

(* ------------------------------ properties --------------------------- *)

\* The directories that exist before the run.
DirsBefore ==
    WithAncestors(Cwd) \cup WithAncestors(ProgramDir)
    \cup WithAncestors(PathDirname(IF argv # <<>> THEN argv[1] ELSE stdin))

\* The guard of some step holds: the two steps of "start", of "read", of
\* "check" and of "loop" have complementary guards, and the steps of
\* "await" need a pending request.
CanStep ==
    \/ pc \in {"start", "read", "check"}
    \/ pc = "loop" /\ idx >= 1
    \/ pc = "await" /\ inflight # {} /\ idx <= NumImages

\* C1: a failure while processing one reference never aborts the run.  The
\* requests issued are those of the references in extraction order, none
\* skipped; a run over a non-empty list ends only after every reference was
\* attempted and its outcome recorded; it then ends with the rewritten
\* document written, unless writing that document itself threw; and short
\* of the end the run is never stuck (CanStep).
C1_FailuresAreIsolated ==
    /\ Len(requests) <= NumImages
    /\ \A k \in 1..Len(requests) : requests[k] = networkImages[k].url
    /\ (pc = "done" /\ NumImages > 0)
          => /\ Len(requests) = NumImages
             /\ Len(Outcomes) = NumImages
             /\ \/ Written /\ PathResolve(outputFile) \in DOMAIN files
                \/ log[Len(log)].line = "runFailed"
    /\ pc # "done" => CanStep

\* C1 witness: a finished run whose first reference failed, whose second
\* succeeded, and whose rewritten document was written.
C1_Witness ==
    /\ pc = "done"
    /\ Written
    /\ Failed(1)
    /\ Succeeded(2)

\* C6: when extraction finds no network image, no request is made, no
\* directory is created, no file is written (the only file is the input
\* document), no output document is written, and the run ends on its report.
C6_NothingToDoWritesNothing ==
    (Extracted /\ NumImages = 0)
        => /\ requests = <<>>
           /\ inflight = {}
           /\ dirs = DirsBefore
           /\ DOMAIN files = {PathResolve(markdownFile)}
           /\ files[PathResolve(markdownFile)] = markdownContent
           /\ ~Written
           /\ pc \in {"check", "done"}
           /\ pc = "done" => log[Len(log)].line = "nothingToConvert"

\* C6 witness: a finished run over a document that holds an image, but no
\* network image.
C6_Witness ==
    /\ pc = "done"
    /\ Extracted
    /\ NumImages = 0
    /\ Contains(markdownContent, FragLocal)

\* C8: downloads are strictly sequential.  At most one request is pending,
\* and it is the latest; every earlier request has been answered and its
\* outcome recorded in the map before the next was issued, in extraction
\* order; and the output is written only after the last outcome is recorded.
C8_OneDownloadAtATime ==
    /\ Cardinality(inflight) <= 1
    /\ inflight \subseteq {Len(requests)}
    /\ Len(Outcomes) = Len(requests) - Cardinality(inflight)
    /\ \A k \in 1..Len(Outcomes) :
          /\ Outcomes[k].line = "convertFailed" => Outcomes[k].arg = networkImages[k].url
          /\ networkImages[k].url \in DOMAIN localMap
    /\ (pc = "await") = (inflight # {})
    /\ Written => (inflight = {} /\ Len(Outcomes) = NumImages)

\* C8 witness: the second download is pending and the first outcome is
\* recorded.
C8_Witness ==
    /\ Len(requests) = 2
    /\ inflight = {2}
    /\ Len(Outcomes) = 1

\* C2: in the written output every reference whose download failed still
\* shows its original markup, in its own place: the output is the document
\* with the failed references as they were, whatever stands in the place of
\* the references that succeeded.
C2_FailedReferenceUnchanged ==
    Written =>
        Matches(Output,
                DocumentWith([i \in 1..NumImages |->
                    IF Failed(i) THEN Fixed(networkImages[i].fullMatch)
                    ELSE AnyText]))

\* C5: extraction on the written output no longer finds the references that
\* succeeded: for every URL it finds at most as many references as failed
\* for that URL during the run.
C5_RoundTrip ==
    Written =>
        \A i \in 1..NumImages :
            CountUrl(extractNetworkImages(Output), networkImages[i].url)
                <= Cardinality({j \in 1..NumImages :
                        Failed(j) /\ networkImages[j].url = networkImages[i].url})

\* The URLs that more than one reference of the document has.
SharedUrls ==
    {networkImages[i].url : i \in {j \in 1..NumImages :
                                     CountUrl(networkImages, networkImages[j].url) > 1}}

\* C7: in the written output all references that share a URL carry one
\* target, a local path returned during the run or the URL itself: for some
\* choice of one target per shared URL, the output is the document with
\* ![alt](target) in the place of each such reference.
C7_SharedUrlSameTarget ==
    Written =>
        \E target \in [SharedUrls -> ReturnedPaths \cup SharedUrls] :
            /\ \A u \in SharedUrls : target[u] \in ReturnedPaths \cup {u}
            /\ Matches(Output,
                       DocumentWith([i \in 1..NumImages |->
                           IF networkImages[i].url \in SharedUrls
                           THEN Fixed(Markup(networkImages[i].alt,
                                             target[networkImages[i].url]))
                           ELSE AnyText]))

\* The images of the text whose target is not an http(s) URL: ![alt](target)
\* on one line, alt without "]", target without ")".
LocalImageTexts(s) ==
    {Slice(s, sp[1], sp[3]) :
        sp \in {t \in (1..Len(s)) \X (1..Len(s)) \X (1..Len(s)) :
                  /\ t[1] + 2 <= t[2]
                  /\ t[2] + 2 <= t[3]
                  /\ StartsWithAt(s, t[1], ImgOpen)
                  /\ StartsWithAt(s, t[2], ImgMid)
                  /\ s[t[3]] = ")"
                  /\ \A j \in (t[1] + 2)..(t[2] - 1) : IsDot(s[j]) /\ s[j] # "]"
                  /\ \A j \in (t[2] + 2)..(t[3] - 1) : IsDot(s[j]) /\ s[j] # ")"
                  /\ SchemeLenAt(s, t[2] + 2) = 0}}

\* C9: an image whose target is not an http(s) URL is never matched or
\* altered: its text is in no extracted reference's fullMatch, alt or url,
\* and it is still in the written output.
C9_LocalImageUntouched ==
    Extracted =>
        \A t \in LocalImageTexts(markdownContent) :
            /\ \A i \in 1..NumImages :
                  /\ ~Contains(networkImages[i].fullMatch, t)
                  /\ ~Contains(networkImages[i].alt, t)
                  /\ ~Contains(networkImages[i].url, t)
            /\ Written => Contains(Output, t)

\* C10: the count reported as converted is the number of references whose
\* download succeeded.
C10_ReportedCountIsSuccesses ==
    Written =>
        /\ log[Len(log)].line = "converted"
        /\ log[Len(log)].arg = Cardinality({i \in 1..NumImages : Succeeded(i)})

\* The path the rewritten document is to have: <stem>_local.md in the
\* directory of the input document.
ExpectedOutput ==
    PathResolve(PathDirname(markdownFile)) \o Sep
    \o PathBasename(markdownFile, MdExt) \o LocalSuffix

\* C3: the input document is never written.  Once read, its content stays
\* what was read; the rewritten document is <stem>_local.md in the input
\* document's own directory, which is not the input path; and every other
\* file the run leaves is a saved image.
C3_InputNeverWritten ==
    /\ Extracted =>
          /\ PathResolve(markdownFile) \in DOMAIN files
          /\ files[PathResolve(markdownFile)] = markdownContent
    /\ Written =>
          /\ PathResolve(outputFile) = ExpectedOutput
          /\ PathResolve(outputFile) # PathResolve(markdownFile)
    /\ \A f \in DOMAIN files :
          \/ f = PathResolve(IF argv # <<>> THEN argv[1] ELSE stdin)
          \/ Written /\ f = ExpectedOutput
          \/ files[f] = ImageBytes

\* The directory the images are to be saved in: assets, in the directory of
\* the input document.
ExpectedAssets == PathResolve(PathDirname(markdownFile)) \o Sep \o AssetsName

\* C4: every image that is saved is saved in the assets directory of the
\* input document's directory, and the replacement recorded for it is
\* ./assets/<file name>, which, resolved against the input document's
\* directory, is the file that was saved.
C4_SavedBesideDocument ==
    \A k \in 1..Len(log) :
        log[k].line = "downloadOk" =>
            LET saved == log[k].arg
                returned == log[k + 1].arg
                name == PathBasename(saved, <<>>)
            IN  /\ PathResolve(saved) = ExpectedAssets \o Sep \o name
                /\ ExpectedAssets \in dirs
                /\ returned = <<".", "/">> \o AssetsName \o Sep \o name
                /\ PathResolve(PathDirname(markdownFile) \o Sep \o returned)
                      = PathResolve(saved)
                /\ PathResolve(saved) \in DOMAIN files

====
